---- MODULE Spec2Model ----
(***************************************************************************)
(* Model of the data-mocker generation engine: the heuristic generator     *)
(* (app/core/generator.py), the explicit generator with its content-hash   *)
(* post-processor (app/core/explicit_generator.py) and the route handlers  *)
(* that call them (app/api/router.py).                                      *)
(*                                                                         *)
(* JSON values are tagged records [t, v]:                                  *)
(*   obj   v = sequence of <<key, value>> pairs (a dict, insertion order)  *)
(*   arr   v = sequence of values                                          *)
(*   str   v = sequence of lexical pieces whose concatenation is the text  *)
(*   int   v = an integer          float  v = its decimal text             *)
(*   bool  v = TRUE / FALSE        null   v = 0                            *)
(***************************************************************************)
EXTENDS Integers, Sequences, FiniteSets, TLC

VARIABLES
    mode,             \* "inferred" (generate_mock_models) or "explicit"
    models_config,    \* the request: sequence of [name, count, template]
    entry,            \* "none", "route" (HTTP handler) or "engine" (direct call)
    pc,               \* "request", "sort", "generate", "explicit", "returned", "failed"
    error,            \* <<kind, a, b>> of the raised error, NoError otherwise
    stack,            \* call stack of visit(): frames [node, todo]
    visited,          \* generator.py:138
    temp_visited,     \* generator.py:139
    execution_order,  \* generator.py:137
    loop,             \* position of the running for loop (154, 160, explicit 134)
    generated_items,  \* records of the model being generated (165, explicit 138)
    raw_items,        \* explicit mode: raw_item of line 140 for each stored record
    context,          \* model name -> records (159, explicit 132)
    returned,         \* TRUE once the call has returned a mapping
    result            \* the mapping returned to the caller

vars == <<mode, models_config, entry, pc, error, stack, visited, temp_visited,
          execution_order, loop, generated_items, raw_items, context, returned,
          result>>

(***************************************************************************)
(* Bounds of the model.                                                    *)
(***************************************************************************)
MaxCount == 2

(***************************************************************************)
(* JSON values.                                                            *)
(***************************************************************************)
JObj(pairs) == [t |-> "obj", v |-> pairs]
JArr(items) == [t |-> "arr", v |-> items]
JStr(pieces) == [t |-> "str", v |-> pieces]
JS(text) == [t |-> "str", v |-> <<text>>]
JInt(n) == [t |-> "int", v |-> n]
JFloat(text) == [t |-> "float", v |-> text]
JBool(b) == [t |-> "bool", v |-> b]
JNull == [t |-> "null", v |-> 0]

RECURSIVE Text(_)
Text(pieces) == IF pieces = <<>> THEN "" ELSE Head(pieces) \o Text(Tail(pieces))

Keys(pairs) == {pairs[i][1] : i \in DOMAIN pairs}
Get(pairs, k) == pairs[CHOOSE i \in DOMAIN pairs : pairs[i][1] = k][2]

NoError == <<"none", "", "">>

(***************************************************************************)
(* The request.                                                            *)
(***************************************************************************)
ModelNames(cfg) == {cfg[i].name : i \in DOMAIN cfg}
Config(cfg, name) == cfg[CHOOSE i \in DOMAIN cfg : cfg[i].name = name]

(***************************************************************************)
(* generator.py: find_dependencies and the reference syntax.               *)
(***************************************************************************)
RefPrefix == "$ref:"

\* str.startswith(prefix): the prefix is one lexical piece of the text
StartsWithRef(pieces) == pieces # <<>> /\ Head(pieces) = RefPrefix

\* str.split('.') of the text after the prefix: "." is a piece of its own
RECURSIVE SplitDots(_, _)
SplitDots(pieces, cur) ==
    IF pieces = <<>> THEN <<cur>>
    ELSE IF Head(pieces) = "." THEN <<cur>> \o SplitDots(Tail(pieces), "")
    ELSE SplitDots(Tail(pieces), cur \o Head(pieces))

RefParts(pieces) == SplitDots(Tail(pieces), "")

\* find_dependencies without the branch for lists
RECURSIVE find_dependencies_SkipLists(_)
find_dependencies_SkipLists(template) ==
    CASE template.t = "obj" ->
           UNION {find_dependencies_SkipLists(template.v[i][2]) : i \in DOMAIN template.v}
      [] template.t = "str" /\ StartsWithRef(template.v) ->
           {RefParts(template.v)[1]}
      [] OTHER -> {}

RECURSIVE find_dependencies(_)
find_dependencies(template) ==
    CASE template.t = "obj" ->
           UNION {find_dependencies(template.v[i][2]) : i \in DOMAIN template.v}
      [] template.t = "arr" ->
           UNION {find_dependencies(template.v[i]) : i \in DOMAIN template.v}
      [] template.t = "str" /\ StartsWithRef(template.v) ->
           {RefParts(template.v)[1]}
      [] OTHER -> {}

\* generator.py:134
graph(cfg) == [n \in ModelNames(cfg) |-> find_dependencies(Config(cfg, n).template)]

(***************************************************************************)
(* Field names and keywords spelled out, for key.lower() and the Python    *)
(* substring test `kw in key_lower` of generate_mock_value.                *)
(***************************************************************************)
Spell(word) ==
    CASE word = "user_id" -> <<"u","s","e","r","_","i","d">>
      [] word = "order_id" -> <<"o","r","d","e","r","_","i","d">>
      [] word = "id" -> <<"i","d">>
      [] word = "ID" -> <<"I","D">>
      [] word = "name" -> <<"n","a","m","e">>
      [] word = "Email" -> <<"E","m","a","i","l">>
      [] word = "email_address" ->
             <<"e","m","a","i","l","_","a","d","d","r","e","s","s">>
      [] word = "video" -> <<"v","i","d","e","o">>
      [] word = "status" -> <<"s","t","a","t","u","s">>
      [] word = "total_price" -> <<"t","o","t","a","l","_","p","r","i","c","e">>
      [] word = "is_active" -> <<"i","s","_","a","c","t","i","v","e">>
      [] word = "note" -> <<"n","o","t","e">>
      [] word = "age" -> <<"a","g","e">>
      [] word = "tags" -> <<"t","a","g","s">>
      [] word = "nums" -> <<"n","u","m","s">>
      [] word = "refs" -> <<"r","e","f","s">>
      [] word = "meta" -> <<"m","e","t","a">>
      [] word = "owners" -> <<"o","w","n","e","r","s">>
      [] word = "r" -> <<"r">>
      [] word = "provider_name" ->
             <<"p","r","o","v","i","d","e","r","_","n","a","m","e">>
      [] word = "updated_at" -> <<"u","p","d","a","t","e","d","_","a","t">>
      [] word = "paid" -> <<"p","a","i","d">>
      [] word = "color_id" -> <<"c","o","l","o","r","_","i","d">>
      [] word = "Session_UUID" ->
             <<"S","e","s","s","i","o","n","_","U","U","I","D">>
      [] word = "email" -> <<"e","m","a","i","l">>
      [] word = "first_name" -> <<"f","i","r","s","t","_","n","a","m","e">>
      [] word = "firstname" -> <<"f","i","r","s","t","n","a","m","e">>
      [] word = "last_name" -> <<"l","a","s","t","_","n","a","m","e">>
      [] word = "lastname" -> <<"l","a","s","t","n","a","m","e">>
      [] word = "address" -> <<"a","d","d","r","e","s","s">>
      [] word = "city" -> <<"c","i","t","y">>
      [] word = "state" -> <<"s","t","a","t","e">>
      [] word = "country" -> <<"c","o","u","n","t","r","y">>
      [] word = "zip" -> <<"z","i","p">>
      [] word = "postal" -> <<"p","o","s","t","a","l">>
      [] word = "phone" -> <<"p","h","o","n","e">>
      [] word = "company" -> <<"c","o","m","p","a","n","y">>
      [] word = "job" -> <<"j","o","b">>
      [] word = "title" -> <<"t","i","t","l","e">>
      [] word = "description" -> <<"d","e","s","c","r","i","p","t","i","o","n">>
      [] word = "bio" -> <<"b","i","o">>
      [] word = "date" -> <<"d","a","t","e">>
      [] word = "time" -> <<"t","i","m","e">>
      [] word = "url" -> <<"u","r","l">>
      [] word = "website" -> <<"w","e","b","s","i","t","e">>
      [] word = "uuid" -> <<"u","u","i","d">>
      [] word = "color" -> <<"c","o","l","o","r">>
      [] word = "year" -> <<"y","e","a","r">>
      [] word = "price" -> <<"p","r","i","c","e">>
      [] word = "amount" -> <<"a","m","o","u","n","t">>
      [] word = "cost" -> <<"c","o","s","t">>
      [] word = "balance" -> <<"b","a","l","a","n","c","e">>

UpperCase == <<"A","B","C","D","E","F","G","H","I","J","K","L","M",
               "N","O","P","Q","R","S","T","U","V","W","X","Y","Z">>
LowerCase == <<"a","b","c","d","e","f","g","h","i","j","k","l","m",
               "n","o","p","q","r","s","t","u","v","w","x","y","z">>

\* str.lower(), on a spelled word
Lower(chars) ==
    [i \in DOMAIN chars |->
        IF \E j \in DOMAIN UpperCase : UpperCase[j] = chars[i]
        THEN LowerCase[CHOOSE j \in DOMAIN UpperCase : UpperCase[j] = chars[i]]
        ELSE chars[i]]

\* `kw in key_lower`: kw occurs as a contiguous substring
Contains(key_lower, kw) ==
    LET n == Spell(kw)
    IN  \E i \in 0..(Len(key_lower) - Len(n)) :
            SubSeq(key_lower, i + 1, i + Len(n)) = n

(***************************************************************************)
(* The random sources (Faker, random): each call draws one of Draws.       *)
(***************************************************************************)
Draws == {1, 2}

Fake(category) == {JS(category \o "#" \o ToString(d)) : d \in Draws}

\* generator.py:61-100: the if/elif chain, in its order; the first rule whose
\* keyword occurs in key_lower decides
StringRules ==
    << <<{"email"}, "email">>,
       <<{"first_name", "firstname"}, "first_name">>,
       <<{"last_name", "lastname"}, "last_name">>,
       <<{"name"}, "name">>,
       <<{"address"}, "address">>,
       <<{"city"}, "city">>,
       <<{"state"}, "state">>,
       <<{"country"}, "country">>,
       <<{"zip", "postal"}, "zipcode">>,
       <<{"phone"}, "phone_number">>,
       <<{"company"}, "company">>,
       <<{"job", "title"}, "job">>,
       <<{"description", "bio"}, "text">>,
       <<{"date"}, "date">>,
       <<{"time"}, "time">>,
       <<{"url", "website"}, "url">>,
       <<{"uuid", "id"}, "uuid4">>,
       <<{"color"}, "color_name">> >>

\* the test of one branch; generator.py:95 excludes the key that is exactly "id"
RuleMatches(rule, key_lower) ==
    \E kw \in rule[1] :
        /\ Contains(key_lower, kw)
        /\ (kw = "id" => key_lower # Spell("id"))

\* an elif chain in which a later branch overrides an earlier one
StringCategory_LastMatch(key) ==
    LET key_lower == Lower(Spell(key))
        hits == {i \in DOMAIN StringRules : RuleMatches(StringRules[i], key_lower)}
    IN  IF hits = {} THEN "word"
        ELSE StringRules[CHOOSE i \in hits : \A j \in hits : i >= j][2]

StringCategory(key) ==
    LET key_lower == Lower(Spell(key))
        hits == {i \in DOMAIN StringRules : RuleMatches(StringRules[i], key_lower)}
    IN  IF hits = {} THEN "word"
        ELSE StringRules[CHOOSE i \in hits : \A j \in hits : i <= j][2]

\* generator.py:103-111
IntCategory(key) ==
    LET key_lower == Lower(Spell(key))
    IN  IF key_lower = Spell("id") \/ Contains(key_lower, "id") THEN "id"
        ELSE IF Contains(key_lower, "age") THEN "age"
        ELSE IF Contains(key_lower, "year") THEN "year"
        ELSE "int"

FakeInt(category) ==
    CASE category = "id" -> {JInt(d) : d \in Draws}
      [] category = "age" -> {JInt(d) : d \in Draws}
      [] category = "year" -> {JInt(1999 + d) : d \in Draws}
      [] OTHER -> {JInt(d - 1) : d \in Draws}

\* generator.py:113-117
FloatCategory(key) ==
    LET key_lower == Lower(Spell(key))
    IN  IF \/ Contains(key_lower, "price") \/ Contains(key_lower, "amount")
           \/ Contains(key_lower, "cost") \/ Contains(key_lower, "balance")
        THEN "money" ELSE "float"

FakeFloat(category) ==
    IF category = "money"
    THEN {JFloat(ToString(d) \o ".25") : d \in Draws}
    ELSE {JFloat("-" \o ToString(d) \o ".5") : d \in Draws}

(***************************************************************************)
(* Outcomes of a synthesis: a value, or the ValueError that was raised.    *)
(***************************************************************************)
Ok(value) == [ok |-> TRUE, val |-> value, err |-> NoError]
Raise(e) == [ok |-> FALSE, val |-> JNull, err |-> e]
OkPairs(pairs) == [ok |-> TRUE, val |-> pairs, err |-> NoError]
RaisePairs(e) == [ok |-> FALSE, val |-> <<>>, err |-> e]

\* resolve_ref drawing the record from any generated model that has the field
resolve_ref_AnyModel(ref_string, ctx) ==
    LET parts == RefParts(ref_string)
    IN  IF Len(parts) # 2 THEN {Raise(<<"invalid_ref", Text(ref_string), "">>)}
        ELSE LET field_name == parts[2]
                 found == UNION {{<<m, i>> : i \in {j \in DOMAIN ctx[m] :
                                        field_name \in Keys(ctx[m][j].v)}}
                                   : m \in DOMAIN ctx}
             IN  IF found = {} THEN {Raise(<<"unresolved", parts[1], "">>)}
                 ELSE {Ok(Get(ctx[c[1]][c[2]].v, field_name)) : c \in found}

\* generator.py:23-39; random.choice draws any record of the referenced model
resolve_ref(ref_string, ctx) ==
    LET parts == RefParts(ref_string)
    IN  IF Len(parts) # 2 THEN {Raise(<<"invalid_ref", Text(ref_string), "">>)}
        ELSE LET model_name == parts[1]
                 field_name == parts[2]
             IN  IF model_name \notin DOMAIN ctx \/ ctx[model_name] = <<>>
                 THEN {Raise(<<"unresolved", model_name, "">>)}
                 ELSE {IF field_name \notin Keys(ctx[model_name][i].v)
                       THEN Raise(<<"missing_field", field_name, model_name>>)
                       ELSE Ok(Get(ctx[model_name][i].v, field_name))
                         : i \in DOMAIN ctx[model_name]}

\* a comprehension over outcomes: every item is evaluated in order and the
\* first exception ends the evaluation
RECURSIVE Repeat(_, _)
Repeat(outcomes, n) ==
    IF n = 0 THEN {OkPairs(<<>>)}
    ELSE UNION {IF ~o.ok THEN {RaisePairs(o.err)}
                ELSE {IF r.ok THEN OkPairs(<<o.val>> \o r.val) ELSE r
                        : r \in Repeat(outcomes, n - 1)}
                  : o \in outcomes}

RECURSIVE generate_mock_value(_, _, _)
RECURSIVE MockDict(_, _)

\* generator.py:49 and 167: {k: generate_mock_value(k, v, context) for k, v in items}
MockDict(pairs, ctx) ==
    IF pairs = <<>> THEN {OkPairs(<<>>)}
    ELSE UNION {IF ~o.ok THEN {RaisePairs(o.err)}
                ELSE {IF r.ok THEN OkPairs(<< <<pairs[1][1], o.val>> >> \o r.val) ELSE r
                        : r \in MockDict(Tail(pairs), ctx)}
                  : o \in generate_mock_value(pairs[1][1], pairs[1][2], ctx)}

\* generator.py:41-126
generate_mock_value(key, template_value, ctx) ==
    IF template_value.t = "obj"
    THEN {IF o.ok THEN Ok(JObj(o.val)) ELSE Raise(o.err)
            : o \in MockDict(template_value.v, ctx)}
    ELSE IF template_value.t = "arr"
    THEN IF template_value.v = <<>> THEN {Ok(JArr(<<>>))}
         ELSE LET item_template == template_value.v[1]
              IN  {IF o.ok THEN Ok(JArr(o.val)) ELSE Raise(o.err)
                     : o \in Repeat(generate_mock_value(key, item_template, ctx),
                                    Len(template_value.v))}
    ELSE IF template_value.t = "str" /\ StartsWithRef(template_value.v)
    THEN resolve_ref(template_value.v, ctx)
    ELSE IF template_value.t = "str"
    THEN {Ok(w) : w \in Fake(StringCategory(key))}
    ELSE IF template_value.t = "int"
    THEN {Ok(n) : n \in FakeInt(IntCategory(key))}
    ELSE IF template_value.t = "float"
    THEN {Ok(x) : x \in FakeFloat(FloatCategory(key))}
    ELSE IF template_value.t = "bool"
    THEN {Ok(JBool(b)) : b \in BOOLEAN}
    ELSE {Ok(JNull)}

(***************************************************************************)
(* explicit_generator.py: the rule tokens.                                 *)
(***************************************************************************)
\* the instants fake.date_time_between can return
DateTimes == {[year |-> ToString(2023 + d),
               iso |-> ToString(2023 + d) \o "-05-01T10:00:00"] : d \in Draws}

\* datetime.strftime: a directive is replaced, any other text is copied
strftime(dt, format_str) ==
    [i \in DOMAIN format_str |->
        IF format_str[i] = "%Y" THEN dt.year ELSE format_str[i]]

\* the texts matched by \d+ in ^DECIMAL(\d+)$, with int() of each
DigitTexts == {"0", "1", "2"}
IntOf(digits) == CASE digits = "0" -> 0 [] digits = "1" -> 1 [] digits = "2" -> 2

\* round(val, precision) of the drawn val, as the float's text
RoundText(d, precision) ==
    ToString(d) \o (IF precision = 0 THEN ".0"
                    ELSE IF precision = 1 THEN ".3" ELSE ".25")

\* ^TIMESTAMP(?:\((.*)\))?$
TimestampMatch(pieces) ==
    /\ pieces # <<>>
    /\ pieces[1] = "TIMESTAMP"
    /\ \/ Len(pieces) = 1
       \/ Len(pieces) >= 3 /\ pieces[2] = "(" /\ pieces[Len(pieces)] = ")"

TimestampGroup(pieces) ==
    IF Len(pieces) = 1 THEN <<>> ELSE SubSeq(pieces, 3, Len(pieces) - 1)

\* ^DECIMAL(\d+)$
DecimalMatch(pieces) ==
    Len(pieces) = 2 /\ pieces[1] = "DECIMAL" /\ pieces[2] \in DigitTexts

\* explicit_generator.py:16-60
process_explicit_value(template_value) ==
    LET text == Text(template_value)
    IN  IF text = "STRING" THEN Fake("punct15")
        ELSE IF text = "STRING_NUMERIC" THEN Fake("digits10")
        ELSE IF text = "STRING_ALPHA" THEN Fake("alpha10")
        ELSE IF text = "STRING_ALPHA_NUMERIC" THEN Fake("alnum15")
        ELSE IF text = "INTEGER" THEN {JInt(d - 1) : d \in Draws}
        ELSE IF text = "LONG" THEN {JInt(1000000000 + d) : d \in Draws}
        ELSE IF TimestampMatch(template_value)
        THEN LET format_str == TimestampGroup(template_value)
             IN  IF Text(format_str) # ""
                 THEN {JStr(strftime(dt, format_str)) : dt \in DateTimes}
                 ELSE {JS(dt.iso) : dt \in DateTimes}
        ELSE IF DecimalMatch(template_value)
        THEN {JFloat(RoundText(d, IntOf(template_value[2]))) : d \in Draws}
        ELSE {JStr(template_value)}

\* all sequences whose i-th element is drawn from sets[i]
RECURSIVE Product(_)
Product(sets) ==
    IF sets = <<>> THEN {<<>>}
    ELSE {<<x>> \o rest : x \in Head(sets), rest \in Product(Tail(sets))}

\* explicit_generator.py:62-83: the set of items one call can return
RECURSIVE generate_explicit_mock_item(_)
generate_explicit_mock_item(template) ==
    IF template.t = "obj"
    THEN {JObj([i \in DOMAIN template.v |-> <<template.v[i][1], vals[i]>>])
            : vals \in Product([i \in DOMAIN template.v |->
                                   generate_explicit_mock_item(template.v[i][2])])}
    ELSE IF template.t = "arr"
    THEN IF template.v = <<>> THEN {JArr(<<>>)}
         ELSE IF Len(template.v) = 1
         THEN LET item_template == template.v[1]
              IN  {JArr(items)
                     : items \in Product([i \in 1..3 |->
                                   generate_explicit_mock_item(item_template)])}
         ELSE {JArr(items)
                 : items \in Product([i \in DOMAIN template.v |->
                                   generate_explicit_mock_item(template.v[i])])}
    ELSE IF template.t = "str" THEN process_explicit_value(template.v)
    ELSE {template}

(***************************************************************************)
(* explicit_generator.py: the content-hash post-processor.                 *)
(***************************************************************************)
\* the keys of the explicit templates in ascending string order (sort_keys)
KeyOrder == <<"a", "b", "cost", "id", "inner", "item_id", "n", "related_items",
              "score", "ts", "uid">>
Rank(k) == CHOOSE i \in DOMAIN KeyOrder : KeyOrder[i] = k

\* sorted(pairs) by key
RECURSIVE SortPairs(_)
SortPairs(pairs) ==
    IF pairs = <<>> THEN <<>>
    ELSE LET m == CHOOSE i \in DOMAIN pairs :
                      \A j \in DOMAIN pairs : Rank(pairs[i][1]) <= Rank(pairs[j][1])
         IN  <<pairs[m]>> \o
             SortPairs(SubSeq(pairs, 1, m - 1) \o SubSeq(pairs, m + 1, Len(pairs)))

RECURSIVE JoinTexts(_)
JoinTexts(texts) ==
    IF texts = <<>> THEN ""
    ELSE IF Len(texts) = 1 THEN texts[1]
    ELSE texts[1] \o ", " \o JoinTexts(Tail(texts))

\* json.dumps without sort_keys: the keys in their order of insertion
RECURSIVE json_dumps_Unsorted(_)
json_dumps_Unsorted(value) ==
    IF value.t = "obj"
    THEN "{" \o JoinTexts([i \in DOMAIN value.v |->
                 "\"" \o value.v[i][1] \o "\": " \o json_dumps_Unsorted(value.v[i][2])])
             \o "}"
    ELSE IF value.t = "arr"
    THEN "[" \o JoinTexts([i \in DOMAIN value.v |-> json_dumps_Unsorted(value.v[i])])
             \o "]"
    ELSE IF value.t = "str" THEN "\"" \o Text(value.v) \o "\""
    ELSE IF value.t = "int" THEN ToString(value.v)
    ELSE IF value.t = "float" THEN value.v
    ELSE IF value.t = "bool" THEN (IF value.v THEN "true" ELSE "false")
    ELSE "null"

\* json.dumps(value, sort_keys=True)
RECURSIVE json_dumps(_)
json_dumps(value) ==
    IF value.t = "obj"
    THEN LET sorted == SortPairs(value.v)
         IN  "{" \o JoinTexts([i \in DOMAIN sorted |->
                      "\"" \o sorted[i][1] \o "\": " \o json_dumps(sorted[i][2])])
                 \o "}"
    ELSE IF value.t = "arr"
    THEN "[" \o JoinTexts([i \in DOMAIN value.v |-> json_dumps(value.v[i])]) \o "]"
    ELSE IF value.t = "str" THEN "\"" \o Text(value.v) \o "\""
    ELSE IF value.t = "int" THEN ToString(value.v)
    ELSE IF value.t = "float" THEN value.v
    ELSE IF value.t = "bool" THEN (IF value.v THEN "true" ELSE "false")
    ELSE "null"

\* hashlib.md5(...).hexdigest(): the digest as an injective function of its input
md5_hexdigest(payload) == "md5(" \o payload \o ")"

\* explicit_generator.py:118: the hex digits regrouped 8-4-4-4-12
custom_uuid(md5_hash) == JS("uuid-" \o md5_hash)

\* explicit_generator.py:101: v == "UUID"
IsUuidMarker(v) == v.t = "str" /\ Text(v.v) = "UUID"

\* the post-processor recursing into nested objects but not into lists
RECURSIVE apply_post_generation_rules_SkipLists(_)
apply_post_generation_rules_SkipLists(item) ==
    IF item.t # "obj" THEN item
    ELSE LET uuid_keys == {item.v[i][1] : i \in {j \in DOMAIN item.v :
                                                    IsUuidMarker(item.v[j][2])}}
             walked == [i \in DOMAIN item.v |->
                          IF item.v[i][2].t = "obj"
                          THEN <<item.v[i][1],
                                 apply_post_generation_rules_SkipLists(item.v[i][2])>>
                          ELSE item.v[i]]
         IN  IF uuid_keys = {} THEN JObj(walked)
             ELSE LET hashable_payload ==
                          JObj(SelectSeq(walked, LAMBDA p : p[1] \notin uuid_keys))
                      md5_hash == md5_hexdigest(json_dumps(hashable_payload))
                  IN  JObj([i \in DOMAIN walked |->
                              IF walked[i][1] \in uuid_keys
                              THEN <<walked[i][1], custom_uuid(md5_hash)>>
                              ELSE walked[i]])

\* explicit_generator.py:85-125
RECURSIVE apply_post_generation_rules(_)
apply_post_generation_rules(item) ==
    IF item.t = "arr"
    THEN JArr([i \in DOMAIN item.v |-> apply_post_generation_rules(item.v[i])])
    ELSE IF item.t # "obj" THEN item
    ELSE LET uuid_keys == {item.v[i][1] : i \in {j \in DOMAIN item.v :
                                                    IsUuidMarker(item.v[j][2])}}
             \* the loop of lines 100-105: nested values are replaced in place
             walked == [i \in DOMAIN item.v |->
                          IF IsUuidMarker(item.v[i][2]) THEN item.v[i]
                          ELSE IF item.v[i][2].t \in {"obj", "arr"}
                          THEN <<item.v[i][1],
                                 apply_post_generation_rules(item.v[i][2])>>
                          ELSE item.v[i]]
         IN  IF uuid_keys = {} THEN JObj(walked)
             ELSE LET hashable_payload ==
                          JObj(SelectSeq(walked, LAMBDA p : p[1] \notin uuid_keys))
                      payload_json_str == json_dumps(hashable_payload)
                      md5_hash == md5_hexdigest(payload_json_str)
                  IN  JObj([i \in DOMAIN walked |->
                              IF walked[i][1] \in uuid_keys
                              THEN <<walked[i][1], custom_uuid(md5_hash)>>
                              ELSE walked[i]])

(***************************************************************************)
(* The requests the model draws from.                                      *)
(***************************************************************************)
Ref(m, f) == JStr(<<RefPrefix, m, ".", f>>)

HPlain == JObj(<< <<"user_id", JInt(0)>> >>)
HTop(m) == JObj(<< <<"user_id", Ref(m, "user_id")>> >>)
HTwo(m1, m2) ==
    JObj(<< <<"refs", JArr(<<Ref(m1, "user_id"), Ref(m2, "user_id")>>)>> >>)
HNested(m) ==
    JObj(<< <<"meta", JObj(<< <<"owners", JArr(<<Ref(m, "user_id")>>)>> >>)>> >>)
HSingle == JObj(<< <<"tags", JArr(<<JS("x")>>)>> >>)
HEmptyList == JObj(<< <<"tags", JArr(<<>>)>> >>)
HMulti == JObj(<< <<"nums", JArr(<<JInt(0), JS("x")>>)>> >>)
HLeaves ==
    JObj(<< <<"total_price", JFloat("100.5")>>, <<"is_active", JBool(TRUE)>>,
            <<"note", JNull>> >>)
HUser == JObj(<< <<"user_id", JInt(0)>>, <<"name", JS("johndoe")>> >>)
HNoField == JObj(<< <<"r", JStr(<<RefPrefix, "A">>)>> >>)
HThreeParts ==
    JObj(<< <<"r", JStr(<<RefPrefix, "A", ".", "user_id", ".", "x">>)>> >>)
HNoModel == JObj(<< <<"r", JStr(<<RefPrefix>>)>> >>)
HMissing == JObj(<< <<"r", Ref("A", "name")>> >>)

\* one string leaf that is no reference, under the given field name
HKey(key) == JObj(<< <<key, JS("x")>> >>)
FieldNames ==
    {"id", "ID", "user_id", "order_id", "video", "paid", "color_id", "uuid",
     "Session_UUID", "Email", "email_address", "name", "first_name", "lastname",
     "provider_name", "address", "city", "state", "country", "zip", "phone",
     "company", "title", "bio", "date", "updated_at", "time", "website",
     "color", "status", "note"}
KeyTemplates == {HKey(k) : k \in FieldNames}

\* templates that decide the dependency graph, over the given reference targets
GraphTemplates(targets) ==
    {HPlain} \cup {HTop(m) : m \in targets}
             \cup {HTwo(p[1], p[2])
                        : p \in {q \in targets \X targets : q[1] # q[2]}}

RefTemplates ==
    GraphTemplates({"A", "B", "X"}) \cup {HNested(m) : m \in {"A", "B", "X"}}
        \cup {HNoField, HThreeParts, HNoModel, HMissing}

ShapeTemplates == {HSingle, HEmptyList, HMulti, HLeaves, HUser}

Token(text) == JS(text)
EProduct == JObj(<< <<"id", Token("UUID")>>, <<"cost", JStr(<<"DECIMAL", "2">>)>> >>)
EAB ==
    JObj(<< <<"id", Token("UUID")>>, <<"a", Token("INTEGER")>>,
            <<"b", Token("STRING_ALPHA")>> >>)
EBA ==
    JObj(<< <<"b", Token("STRING_ALPHA")>>, <<"uid", Token("UUID")>>,
            <<"a", Token("INTEGER")>> >>)
ETwoIds ==
    JObj(<< <<"id", Token("UUID")>>, <<"n", Token("INTEGER")>>,
            <<"uid", Token("UUID")>> >>)
ENested ==
    JObj(<< <<"id", Token("UUID")>>,
            <<"inner", JObj(<< <<"uid", Token("UUID")>>,
                               <<"n", Token("INTEGER")>> >>)>> >>)
EItems ==
    JObj(<< <<"id", Token("UUID")>>,
            <<"related_items",
              JArr(<< JObj(<< <<"item_id", Token("UUID")>>,
                              <<"score", Token("INTEGER")>> >>) >>)>> >>)
EPositional ==
    JObj(<< <<"related_items",
              JArr(<< JObj(<< <<"item_id", Token("UUID")>>,
                              <<"score", Token("LONG")>> >>),
                      Token("UUID"), JInt(7) >>)>> >>)
EDeep ==
    JObj(<< <<"related_items",
              JArr(<< JArr(<< JObj(<< <<"item_id", Token("UUID")>> >>) >>) >>)>> >>)
ETimestamp ==
    JObj(<< <<"id", Token("UUID")>>,
            <<"ts", JStr(<<"TIMESTAMP", "(", "UUID", ")">>)>>,
            <<"n", JInt(5)>> >>)
EYear ==
    JObj(<< <<"ts", JStr(<<"TIMESTAMP", "(", "%Y", "-", "x", ")">>)>>,
            <<"n", Token("TIMESTAMP")>>, <<"a", JStr(<<"TIMESTAMP", "(", ")">>)>> >>)
ELiteral ==
    JObj(<< <<"a", Token("hello")>>, <<"n", JInt(7)>>, <<"b", JBool(TRUE)>>,
            <<"cost", JStr(<<"DECIMAL", "0">>)>>, <<"ts", JNull>>,
            <<"score", JStr(<<"DECIMAL", "x">>)>>, <<"id", JFloat("1.5")>> >>)
EStrings ==
    JObj(<< <<"a", Token("STRING")>>, <<"b", Token("STRING_NUMERIC")>>,
            <<"n", JArr(<<>>)>> >>)
EAlnum == JObj(<< <<"a", Token("STRING_ALPHA_NUMERIC")>>, <<"uid", Token("UUID")>> >>)

ExplicitTemplates ==
    {EProduct, EAB, EBA, ETwoIds, ENested, EItems, EPositional, EDeep, ETimestamp,
     EYear, ELiteral, EStrings, EAlnum}

Counts == 0..MaxCount

Model(name, count, template) == [name |-> name, count |-> count, template |-> template]

\* requests of one, two and three models; the models are named by position
OneModel(templates) ==
    {<<Model("A", c, t)>> : c \in Counts, t \in templates}
TwoModels(templates) ==
    {<<Model("A", c1, t1), Model("B", c2, t2)>>
        : c1 \in Counts, t1 \in templates, c2 \in Counts, t2 \in templates}
ThreeModels(templates) ==
    {<<Model("A", 1, t1), Model("B", 1, t2), Model("C", 1, t3)>>
        : t1 \in templates, t2 \in templates, t3 \in templates}

\* two plain models and a third one that references them, with any counts
FanInRequests ==
    {<<Model("A", c1, HPlain), Model("B", c2, HPlain), Model("C", c3, t)>>
        : c1 \in Counts, c2 \in Counts, c3 \in Counts,
          t \in {HTop("A"), HTwo("A", "B"), HTwo("B", "A")}}

InferredRequests ==
    {<<>>} \cup OneModel(RefTemplates \cup ShapeTemplates \cup KeyTemplates)
           \cup TwoModels(RefTemplates)
           \cup ThreeModels(GraphTemplates({"A", "B", "C", "X"}))
           \cup FanInRequests

ExplicitRequests ==
    {<<>>} \cup OneModel(ExplicitTemplates) \cup TwoModels({EProduct, EAB, EBA})

Requests(m) == IF m = "inferred" THEN InferredRequests ELSE ExplicitRequests

(***************************************************************************)
(* State machine.                                                          *)
(***************************************************************************)
Put(map, name, value) ==
    [n \in DOMAIN map \cup {name} |-> IF n = name THEN value ELSE map[n]]

EmptyMap == [n \in {} |-> <<>>]

Init ==
    /\ mode \in {"inferred", "explicit"}
    /\ models_config \in Requests(mode)
    /\ entry = "none"
    /\ pc = "request"
    /\ error = NoError
    /\ stack = <<>>
    /\ visited = {}
    /\ temp_visited = {}
    /\ execution_order = <<>>
    /\ loop = 1
    /\ generated_items = <<>>
    /\ raw_items = EmptyMap
    /\ context = EmptyMap
    /\ returned = FALSE
    /\ result = EmptyMap

Fail(e) ==
    /\ pc' = "failed"
    /\ error' = e

EngineStart == IF mode = "inferred" THEN "sort" ELSE "explicit"

\* router.py:11: Field(gt=0, le=10000)
MaxRouteCount == 10000

\* router.py:10-15: the request body is validated before the handler runs
RouteInvalid ==
    /\ pc = "request"
    /\ \E i \in DOMAIN models_config :
          models_config[i].count <= 0 \/ models_config[i].count > MaxRouteCount
    /\ entry' = "route"
    /\ Fail(<<"validation", "", "">>)
    /\ UNCHANGED <<mode, models_config, stack, visited, temp_visited, execution_order,
                   loop, generated_items, raw_items, context, returned, result>>

\* a handler without the test for an empty mapping: it calls the engine
RouteEmpty_Unchecked ==
    /\ pc = "request"
    /\ models_config = <<>>
    /\ entry' = "route"
    /\ pc' = EngineStart
    /\ UNCHANGED <<mode, models_config, error, stack, visited, temp_visited,
                   execution_order, loop, generated_items, raw_items, context,
                   returned, result>>

\* router.py:22-23, 38-39, 54-55, 70-71
RouteEmpty ==
    /\ pc = "request"
    /\ models_config = <<>>
    /\ entry' = "route"
    /\ Fail(<<"empty", "", "">>)
    /\ UNCHANGED <<mode, models_config, stack, visited, temp_visited, execution_order,
                   loop, generated_items, raw_items, context, returned, result>>

\* router.py:25-27, 41-43, 57-59, 73-75: the handler calls the engine
RouteCall ==
    /\ pc = "request"
    /\ models_config # <<>>
    /\ \A i \in DOMAIN models_config :
          models_config[i].count > 0 /\ models_config[i].count <= MaxRouteCount
    /\ entry' = "route"
    /\ pc' = EngineStart
    /\ UNCHANGED <<mode, models_config, error, stack, visited, temp_visited,
                   execution_order, loop, generated_items, raw_items, context,
                   returned, result>>

\* generate_mock_models / generate_explicit_models called on a mapping directly
EngineCall ==
    /\ pc = "request"
    /\ entry' = "engine"
    /\ pc' = EngineStart
    /\ UNCHANGED <<mode, models_config, error, stack, visited, temp_visited,
                   execution_order, loop, generated_items, raw_items, context,
                   returned, result>>

Frame(node) == [node |-> node, todo |-> graph(models_config)[node]]
Top == stack[Len(stack)]

\* generator.py:154-156: the loop over the models, calling visit
SortNext ==
    /\ pc = "sort"
    /\ stack = <<>>
    /\ loop <= Len(models_config)
    /\ LET model_name == models_config[loop].name
       IN  stack' = IF model_name \notin visited THEN <<Frame(model_name)>> ELSE <<>>
    /\ temp_visited' = IF models_config[loop].name \notin visited
                       THEN temp_visited \cup {models_config[loop].name}
                       ELSE temp_visited
    /\ loop' = loop + 1
    /\ UNCHANGED <<mode, models_config, entry, pc, error, visited, execution_order,
                   generated_items, raw_items, context, returned, result>>

\* visit without the test of line 147: an unknown neighbor is passed over
VisitUnknown_Ignored ==
    /\ pc = "sort"
    /\ stack # <<>>
    /\ \E neighbor \in Top.todo :
          /\ neighbor \notin ModelNames(models_config)
          /\ stack' = [stack EXCEPT ![Len(stack)].todo = @ \ {neighbor}]
    /\ UNCHANGED <<mode, models_config, entry, pc, error, visited, temp_visited,
                   execution_order, loop, generated_items, raw_items, context,
                   returned, result>>

\* generator.py:146-148: the next neighbor is no model of the request
VisitUnknown ==
    /\ pc = "sort"
    /\ stack # <<>>
    /\ \E neighbor \in Top.todo :
          /\ neighbor \notin ModelNames(models_config)
          /\ Fail(<<"unknown", Top.node, neighbor>>)
    /\ UNCHANGED <<mode, models_config, entry, stack, visited, temp_visited,
                   execution_order, loop, generated_items, raw_items, context,
                   returned, result>>

\* visit without the test of line 142: a neighbor in progress is passed over
VisitCycle_Ignored ==
    /\ pc = "sort"
    /\ stack # <<>>
    /\ \E neighbor \in Top.todo :
          /\ neighbor \in ModelNames(models_config)
          /\ neighbor \in temp_visited
          /\ stack' = [stack EXCEPT ![Len(stack)].todo = @ \ {neighbor}]
    /\ UNCHANGED <<mode, models_config, entry, pc, error, visited, temp_visited,
                   execution_order, loop, generated_items, raw_items, context,
                   returned, result>>

\* generator.py:149, 142-143: visit(neighbor) finds the neighbor in progress
VisitCycle ==
    /\ pc = "sort"
    /\ stack # <<>>
    /\ \E neighbor \in Top.todo :
          /\ neighbor \in ModelNames(models_config)
          /\ neighbor \in temp_visited
          /\ Fail(<<"circular", neighbor, "">>)
    /\ UNCHANGED <<mode, models_config, entry, stack, visited, temp_visited,
                   execution_order, loop, generated_items, raw_items, context,
                   returned, result>>

\* generator.py:149, 144-145: visit(neighbor) starts on a new node
VisitDescend ==
    /\ pc = "sort"
    /\ stack # <<>>
    /\ \E neighbor \in Top.todo :
          /\ neighbor \in ModelNames(models_config)
          /\ neighbor \notin temp_visited
          /\ neighbor \notin visited
          /\ stack' = [stack EXCEPT ![Len(stack)].todo = @ \ {neighbor}]
                          \o <<Frame(neighbor)>>
          /\ temp_visited' = temp_visited \cup {neighbor}
    /\ UNCHANGED <<mode, models_config, entry, pc, error, visited, execution_order,
                   loop, generated_items, raw_items, context, returned, result>>

\* generator.py:149, 144: visit(neighbor) returns at once, the neighbor is done
VisitSkip ==
    /\ pc = "sort"
    /\ stack # <<>>
    /\ \E neighbor \in Top.todo :
          /\ neighbor \in ModelNames(models_config)
          /\ neighbor \notin temp_visited
          /\ neighbor \in visited
          /\ stack' = [stack EXCEPT ![Len(stack)].todo = @ \ {neighbor}]
    /\ UNCHANGED <<mode, models_config, entry, pc, error, visited, temp_visited,
                   execution_order, loop, generated_items, raw_items, context,
                   returned, result>>

\* generator.py:150-152: the neighbors are exhausted, the node is done
VisitReturn ==
    /\ pc = "sort"
    /\ stack # <<>>
    /\ Top.todo = {}
    /\ temp_visited' = temp_visited \ {Top.node}
    /\ visited' = visited \cup {Top.node}
    /\ execution_order' = Append(execution_order, Top.node)
    /\ stack' = SubSeq(stack, 1, Len(stack) - 1)
    /\ UNCHANGED <<mode, models_config, entry, pc, error, loop, generated_items,
                   raw_items, context, returned, result>>

\* generator.py:156-160: the sort is over, generation starts
SortDone ==
    /\ pc = "sort"
    /\ stack = <<>>
    /\ loop > Len(models_config)
    /\ pc' = "generate"
    /\ loop' = 1
    /\ UNCHANGED <<mode, models_config, entry, error, stack, visited, temp_visited,
                   execution_order, generated_items, raw_items, context, returned,
                   result>>

CurrentInferred == Config(models_config, execution_order[loop])

\* a generation step that hands back the models stored so far when it fails
GenerateItem_ReturnsPartial ==
    /\ pc = "generate"
    /\ loop <= Len(execution_order)
    /\ Len(generated_items) < CurrentInferred.count
    /\ \E o \in MockDict(CurrentInferred.template.v, context) :
          IF o.ok
          THEN /\ generated_items' = Append(generated_items, JObj(o.val))
               /\ UNCHANGED <<pc, error, returned, result>>
          ELSE /\ Fail(o.err)
               /\ returned' = TRUE
               /\ result' = context
               /\ UNCHANGED generated_items
    /\ UNCHANGED <<mode, models_config, entry, stack, visited, temp_visited,
                   execution_order, loop, raw_items, context>>

\* generator.py:166-168: one record of the current model
GenerateItem ==
    /\ pc = "generate"
    /\ loop <= Len(execution_order)
    /\ Len(generated_items) < CurrentInferred.count
    /\ \E o \in MockDict(CurrentInferred.template.v, context) :
          IF o.ok
          THEN /\ generated_items' = Append(generated_items, JObj(o.val))
               /\ UNCHANGED <<pc, error>>
          ELSE /\ Fail(o.err)
               /\ UNCHANGED generated_items
    /\ UNCHANGED <<mode, models_config, entry, stack, visited, temp_visited,
                   execution_order, loop, raw_items, context, returned, result>>

\* the loop of line 166 ending one record early
StoreModel_Early ==
    /\ pc = "generate"
    /\ loop <= Len(execution_order)
    /\ Len(generated_items) >= CurrentInferred.count - 1
    /\ context' = Put(context, CurrentInferred.name, generated_items)
    /\ generated_items' = <<>>
    /\ loop' = loop + 1
    /\ UNCHANGED <<mode, models_config, entry, pc, error, stack, visited,
                   temp_visited, execution_order, raw_items, returned, result>>

\* generator.py:170: the model's records enter the context
StoreModel ==
    /\ pc = "generate"
    /\ loop <= Len(execution_order)
    /\ Len(generated_items) >= CurrentInferred.count
    /\ context' = Put(context, CurrentInferred.name, generated_items)
    /\ generated_items' = <<>>
    /\ loop' = loop + 1
    /\ UNCHANGED <<mode, models_config, entry, pc, error, stack, visited,
                   temp_visited, execution_order, raw_items, returned, result>>

\* generator.py:172
ReturnContext ==
    /\ pc = "generate"
    /\ loop > Len(execution_order)
    /\ pc' = "returned"
    /\ returned' = TRUE
    /\ result' = context
    /\ UNCHANGED <<mode, models_config, entry, error, stack, visited, temp_visited,
                   execution_order, loop, generated_items, raw_items, context>>

CurrentExplicit == models_config[loop]

\* explicit_generator.py:139-148: one record of the current model
ExplicitItem ==
    /\ pc = "explicit"
    /\ loop <= Len(models_config)
    /\ Len(generated_items) < CurrentExplicit.count
    /\ \E raw_item \in generate_explicit_mock_item(CurrentExplicit.template) :
          LET processed_item == IF raw_item.t = "obj"
                                THEN apply_post_generation_rules(raw_item)
                                ELSE raw_item
              name == CurrentExplicit.name
              before == IF name \in DOMAIN raw_items THEN raw_items[name] ELSE <<>>
          IN  /\ generated_items' = Append(generated_items, processed_item)
              /\ raw_items' = Put(raw_items, name, Append(before, raw_item))
    /\ UNCHANGED <<mode, models_config, entry, pc, error, stack, visited,
                   temp_visited, execution_order, loop, context, returned, result>>

\* explicit_generator.py:150
ExplicitStore ==
    /\ pc = "explicit"
    /\ loop <= Len(models_config)
    /\ Len(generated_items) >= CurrentExplicit.count
    /\ context' = Put(context, CurrentExplicit.name, generated_items)
    /\ generated_items' = <<>>
    /\ loop' = loop + 1
    /\ UNCHANGED <<mode, models_config, entry, pc, error, stack, visited,
                   temp_visited, execution_order, raw_items, returned, result>>

\* explicit_generator.py:152
ExplicitReturn ==
    /\ pc = "explicit"
    /\ loop > Len(models_config)
    /\ pc' = "returned"
    /\ returned' = TRUE
    /\ result' = context
    /\ UNCHANGED <<mode, models_config, entry, error, stack, visited, temp_visited,
                   execution_order, loop, generated_items, raw_items, context>>

Next ==
    \/ RouteInvalid
    \/ RouteEmpty
    \/ RouteCall
    \/ EngineCall
    \/ SortNext
    \/ VisitUnknown
    \/ VisitCycle
    \/ VisitDescend
    \/ VisitSkip
    \/ VisitReturn
    \/ SortDone
    \/ GenerateItem
    \/ StoreModel
    \/ ReturnContext
    \/ ExplicitItem
    \/ ExplicitStore
    \/ ExplicitReturn

Spec == Init /\ [][Next]_vars

(***************************************************************************)
(* Vocabulary of the properties, stated on templates and results without   *)
(* the operators of the engine.                                            *)
(***************************************************************************)
\* the string leaves of a template, at any nesting depth
RECURSIVE LeafStrings(_)
LeafStrings(template) ==
    IF template.t = "obj"
    THEN UNION {LeafStrings(template.v[i][2]) : i \in DOMAIN template.v}
    ELSE IF template.t = "arr"
    THEN UNION {LeafStrings(template.v[i]) : i \in DOMAIN template.v}
    ELSE IF template.t = "str" THEN {template.v}
    ELSE {}

IsReference(pieces) == Len(pieces) >= 1 /\ pieces[1] = "$ref:"

\* the text between "$ref:" and the first "."
ReferencedModel(pieces) ==
    LET dots == {i \in 2..Len(pieces) : pieces[i] = "."}
        last == IF dots = {} THEN Len(pieces)
                ELSE (CHOOSE i \in dots : \A j \in dots : i <= j) - 1
    IN  Text(SubSeq(pieces, 2, last))

\* $ref:A.f exactly: one model name, one dot, one field name
IsModelField(pieces) ==
    IsReference(pieces) /\ Len(pieces) = 4 /\ pieces[3] = "."
        /\ pieces[2] # "." /\ pieces[4] # "."

ReferencedModels(template) ==
    {ReferencedModel(str) : str \in {x \in LeafStrings(template) : IsReference(x)}}

RequestNames == {models_config[i].name : i \in DOMAIN models_config}
TemplateOf(name) ==
    models_config[CHOOSE i \in DOMAIN models_config : models_config[i].name = name]
        .template
CountOf(name) ==
    models_config[CHOOSE i \in DOMAIN models_config : models_config[i].name = name]
        .count

\* the models with a reference to a model that is no key of the request
MissingOf(name) == ReferencedModels(TemplateOf(name)) \ RequestNames
AllReferencesKnown == \A n \in RequestNames : MissingOf(n) = {}

\* b is reached from a along one or more references
RECURSIVE ReachableIn(_, _, _)
ReachableIn(a, b, steps) ==
    \/ b \in ReferencedModels(TemplateOf(a))
    \/ /\ steps > 1
       /\ \E c \in ReferencedModels(TemplateOf(a)) \cap RequestNames :
             ReachableIn(c, b, steps - 1)

HasCycle ==
    \E n \in RequestNames : ReachableIn(n, n, Cardinality(RequestNames))

\* errors raised at the HTTP boundary, before the engine is called
BoundaryError == error[1] \in {"validation", "empty"}

Position(n) == CHOOSE i \in DOMAIN execution_order : execution_order[i] = n

(***************************************************************************)
(* C1: heuristic mode, successful request: in every record of a model B    *)
(* whose template has a top-level field with value $ref:A.f, that field    *)
(* equals the f field of at least one record of result[A].                 *)
(***************************************************************************)
C1_RefMembership ==
    (returned /\ mode = "inferred") =>
        \A b \in RequestNames :
            \A j \in DOMAIN TemplateOf(b).v :
                LET k == TemplateOf(b).v[j][1]
                    tv == TemplateOf(b).v[j][2]
                IN  (tv.t = "str" /\ IsModelField(tv.v)) =>
                        \A r \in DOMAIN result[b] :
                            /\ tv.v[2] \in DOMAIN result
                            /\ \E a \in DOMAIN result[tv.v[2]] :
                                  LET rec == result[tv.v[2]][a].v
                                  IN  /\ tv.v[4] \in Keys(rec)
                                      /\ Get(rec, tv.v[4]) = Get(result[b][r].v, k)

\* two records of B drew different records of A
C1_Witness ==
    /\ returned /\ mode = "inferred"
    /\ \E b \in RequestNames :
          /\ TemplateOf(b) = HTop("A")
          /\ b # "A"
          /\ Len(result[b]) = 2
          /\ result[b][1] # result[b][2]
          /\ result[b][1] = result["A"][1]
          /\ result[b][2] = result["A"][2]

(***************************************************************************)
(* C2: heuristic mode: once the resolver has succeeded, for every          *)
(* reference $ref:A.* at any depth of B's template, A precedes B in the    *)
(* execution order, and all count records of A are in the context before   *)
(* the first record of B is generated.                                     *)
(***************************************************************************)
C2_DependencyOrder ==
    (mode = "inferred" /\ pc \in {"generate", "returned"}) =>
        \A b \in RequestNames :
            \A a \in ReferencedModels(TemplateOf(b)) :
                /\ a \in RequestNames
                /\ Position(a) < Position(b)
                /\ (loop >= Position(b)) =>
                       /\ a \in DOMAIN context
                       /\ Len(context[a]) = CountOf(a)

\* B, whose reference to A sits inside a nested object and a list, is about to
\* get its first record and A's two records are in the context
C2_Witness ==
    /\ mode = "inferred" /\ pc = "generate"
    /\ loop <= Len(execution_order)
    /\ execution_order[loop] = "A"
    /\ TemplateOf("A") = HNested("B")
    /\ generated_items = <<>>
    /\ Len(context["B"]) = 2
    /\ execution_order = <<"B", "A">>

(***************************************************************************)
(* C3: heuristic mode: a request whose references all name models of the   *)
(* request and whose dependency graph has a cycle (a self-reference        *)
(* included) fails with the circular-dependency error, returns no mapping, *)
(* and no record is generated before the failure.                          *)
(***************************************************************************)
C3_CycleFails ==
    (mode = "inferred" /\ AllReferencesKnown /\ HasCycle) =>
        /\ ~returned
        /\ pc \in {"request", "sort", "failed"}
        /\ context = EmptyMap /\ generated_items = <<>>
        /\ (pc = "sort") => ENABLED Next
        /\ (pc = "failed" /\ ~BoundaryError) => error[1] = "circular"

\* the cycle A -> B -> C -> A was met in the middle of the traversal
C3_Witness ==
    /\ mode = "inferred" /\ pc = "failed" /\ error[1] = "circular"
    /\ Len(models_config) = 3
    /\ TemplateOf("A") = HTop("B")
    /\ TemplateOf("B") = HTop("C")
    /\ TemplateOf("C") = HTop("A")
    /\ Len(stack) = 3

(***************************************************************************)
(* C4: heuristic mode: a template of a model B with a $ref: string whose   *)
(* model is no key of the request makes the request fail during ordering,  *)
(* before any record is generated.  As amended: the error is the           *)
(* unknown-model error naming a model of the request and a missing model   *)
(* that its template references, or the circular-dependency error when the *)
(* traversal meets a cycle first; it names B when B is the only model with *)
(* a missing reference and the graph has no cycle.                         *)
(***************************************************************************)
ModelsWithMissing == {n \in RequestNames : MissingOf(n) # {}}

\* C4 (as amended): an unknown reference makes the ordering fail, with the
\* unknown-model error or, a cycle met first, the circular-dependency error
C4_UnknownFailsInOrdering ==
    (mode = "inferred" /\ ModelsWithMissing # {}) =>
        /\ ~returned
        /\ pc \in {"request", "sort", "failed"}
        /\ context = EmptyMap /\ generated_items = <<>>
        /\ (pc = "sort") => ENABLED Next
        /\ (pc = "failed" /\ ~BoundaryError) =>
               \/ /\ error[1] = "unknown"
                  /\ error[2] \in RequestNames
                  /\ error[3] \in MissingOf(error[2])
               \/ /\ error[1] = "circular"
                  /\ HasCycle
        /\ (pc = "failed" /\ ~BoundaryError /\ ~HasCycle
                /\ Cardinality(ModelsWithMissing) = 1) =>
               /\ error[1] = "unknown"
               /\ error[2] \in ModelsWithMissing

\* the missing model was met below the root of the traversal
C4_Witness ==
    /\ mode = "inferred" /\ pc = "failed"
    /\ error = <<"unknown", "B", "X">>
    /\ Len(stack) = 2
    /\ stack[1].node = "A"

\* C4 as first stated: the error names every model B with a missing reference
C4_Original ==
    (mode = "inferred" /\ pc = "failed" /\ ~BoundaryError) =>
        \A b \in ModelsWithMissing :
            /\ error[1] = "unknown"
            /\ error[2] = b
            /\ error[3] \in MissingOf(b)

(***************************************************************************)
(* C5: every request that succeeds, in both modes, returns a mapping whose *)
(* key set is the set of the input model names and whose list for each     *)
(* model has exactly the requested count of records.                       *)
(***************************************************************************)
C5_KeysAndCounts ==
    returned =>
        /\ DOMAIN result = RequestNames
        /\ \A n \in RequestNames :
              /\ Len(result[n]) = CountOf(n)
              /\ \A i \in DOMAIN result[n] : result[n][i].t = "obj"

C5_Witness ==
    /\ returned
    /\ Len(models_config) = 2
    /\ CountOf("A") = 2 /\ CountOf("B") = 1
    /\ Len(result["A"]) = 2 /\ Len(result["B"]) = 1

(***************************************************************************)
(* C6: in both modes, a template array with exactly one element, at any    *)
(* nesting depth, yields an output array of exactly 3 items, each made     *)
(* from that one element template.                                         *)
(***************************************************************************)
RECURSIVE SingletonsExpanded(_, _)
SingletonsExpanded(template, value) ==
    IF template.t = "obj"
    THEN /\ value.t = "obj"
         /\ \A i \in DOMAIN template.v :
               /\ template.v[i][1] \in Keys(value.v)
               /\ SingletonsExpanded(template.v[i][2],
                                     Get(value.v, template.v[i][1]))
    ELSE IF template.t = "arr" /\ Len(template.v) = 1
    THEN /\ value.t = "arr"
         /\ Len(value.v) = 3
         /\ \A i \in DOMAIN value.v : SingletonsExpanded(template.v[1], value.v[i])
    ELSE IF template.t = "arr"
    THEN /\ value.t = "arr"
         /\ \A i \in DOMAIN template.v \cap DOMAIN value.v :
               SingletonsExpanded(template.v[i], value.v[i])
    ELSE TRUE

\* C6: every singleton template array of a returned record has 3 items
C6_SingletonYieldsThree ==
    returned =>
        \A n \in RequestNames :
            \A i \in DOMAIN result[n] : SingletonsExpanded(TemplateOf(n), result[n][i])

\* the same statement for the explicit generator alone
C6_ExplicitOnly == (mode = "explicit") => C6_SingletonYieldsThree

RECURSIVE ObjectPairs(_, _)
ObjectPairs(raw, out) ==
    IF raw.t = "obj"
    THEN {[raw |-> raw, out |-> out]}
            \cup UNION {ObjectPairs(raw.v[i][2], out.v[i][2]) : i \in DOMAIN raw.v}
    ELSE IF raw.t = "arr"
    THEN UNION {ObjectPairs(raw.v[i], out.v[i]) : i \in DOMAIN raw.v}
    ELSE {}

StoredObjects ==
    UNION {UNION {ObjectPairs(raw_items[n][i], context[n][i])
                    : i \in DOMAIN context[n]} : n \in DOMAIN context}

IsUuidToken(value) == value.t = "str" /\ Text(value.v) = "UUID"

\* the keys of an object whose synthesized value is the UUID marker
Marked(p) == {k \in Keys(p.raw.v) : IsUuidToken(Get(p.raw.v, k))}

\* a value as a mapping, without the order of insertion of the keys
RECURSIVE Canon(_)
Canon(value) ==
    IF value.t = "obj"
    THEN [t |-> "obj", v |-> [k \in Keys(value.v) |-> Canon(Get(value.v, k))]]
    ELSE IF value.t = "arr"
    THEN [t |-> "arr", v |-> [i \in DOMAIN value.v |-> Canon(value.v[i])]]
    ELSE IF value.t = "str" THEN [t |-> "str", v |-> Text(value.v)]
    ELSE value

\* the non-UUID-marked content of a returned object
Content(p) == [k \in Keys(p.out.v) \ Marked(p) |-> Canon(Get(p.out.v, k))]

\* the identifiers the object received
Ids(p) == {Get(p.out.v, k) : k \in Marked(p)}

Identified == {p \in StoredObjects : Marked(p) # {}}

(***************************************************************************)
(* C8: with the digest an injective function of the sorted-key             *)
(* serialization, two objects with identical non-UUID-marked fields        *)
(* receive the same derived identifier and two objects that differ in a    *)
(* non-excluded field, a field of a nested object included, receive        *)
(* different ones.                                                         *)
(***************************************************************************)
C8_ContentHashDeterminism ==
    (mode = "explicit") =>
        \A p \in Identified :
            /\ Cardinality(Ids(p)) = 1
            /\ \A q \in Identified :
                  (Content(p) = Content(q)) <=> (Ids(p) = Ids(q))

\* the same fields inserted in another order, under another UUID key
C8_Witness ==
    /\ mode = "explicit"
    /\ \E p \in Identified, q \in Identified :
          /\ Content(p) = Content(q)
          /\ Ids(p) = Ids(q)
          /\ Marked(p) # Marked(q)
          /\ p.out.v[1][1] # q.out.v[1][1]

\* two objects that differ in a field of a nested object only
C8_NestedDifference ==
    /\ mode = "explicit"
    /\ \E p \in Identified, q \in Identified :
          /\ Keys(p.out.v) = {"id", "inner"} /\ Keys(q.out.v) = {"id", "inner"}
          /\ Get(p.out.v, "inner") # Get(q.out.v, "inner")
          /\ Ids(p) # Ids(q)

(***************************************************************************)
(* C9: explicit mode: in every returned record, for every object at any    *)
(* depth, every key whose template value is the token UUID holds the       *)
(* grouped identifier computed from the object's other, non-UUID keys; the *)
(* UUID keys of one object share one value and no field of an object is    *)
(* left as the literal UUID.                                               *)
(***************************************************************************)
\* every object of a template, at any depth, with the raw and returned object
RECURSIVE ObjectTriples(_, _, _)
ObjectTriples(template, raw, out) ==
    IF template.t = "obj"
    THEN {[template |-> template, raw |-> raw, out |-> out]}
            \cup UNION {ObjectTriples(template.v[i][2], raw.v[i][2], out.v[i][2])
                          : i \in DOMAIN template.v}
    ELSE IF template.t = "arr" /\ Len(template.v) = 1
    THEN UNION {ObjectTriples(template.v[1], raw.v[i], out.v[i]) : i \in DOMAIN out.v}
    ELSE IF template.t = "arr"
    THEN UNION {ObjectTriples(template.v[i], raw.v[i], out.v[i])
                  : i \in DOMAIN template.v}
    ELSE {}

DerivedIdentifier(pairs) == custom_uuid(md5_hexdigest(json_dumps(JObj(pairs))))

UuidKeysFilled(x) ==
    LET others == SelectSeq(x.out.v, LAMBDA p : p[1] \notin Marked(x))
    IN  /\ \A i \in DOMAIN x.template.v :
              IsUuidToken(x.template.v[i][2]) =>
                  /\ x.out.v[i][1] = x.template.v[i][1]
                  /\ x.out.v[i][2] = DerivedIdentifier(others)
        /\ \A i \in DOMAIN x.out.v : ~IsUuidToken(x.out.v[i][2])

\* C9: every UUID key of every object of a stored record holds the identifier
\* derived from the other keys of its object
C9_UuidKeysFilled ==
    (mode = "explicit") =>
        \A n \in DOMAIN context :
            \A i \in DOMAIN context[n] :
                \A x \in ObjectTriples(TemplateOf(n), raw_items[n][i], context[n][i]) :
                    UuidKeysFilled(x)

\* a returned record with UUID keys at the top and in the objects of a list
C9_Witness ==
    /\ mode = "explicit" /\ returned
    /\ Len(models_config) = 1
    /\ TemplateOf("A") = EItems
    /\ Len(result["A"]) = 2
    /\ \E x \in ObjectTriples(EItems, raw_items["A"][2], result["A"][2]) :
          /\ "item_id" \in Keys(x.out.v)
          /\ Get(x.out.v, "item_id") # Get(result["A"][2].v, "id")
          /\ ~IsUuidToken(Get(x.out.v, "item_id"))

(***************************************************************************)
(* C10: heuristic mode: a template sequence with n >= 2 elements yields n  *)
(* items, item i synthesized from template element i: its own type and, if *)
(* it is a $ref: string, its own reference.                                *)
(***************************************************************************)
RECURSIVE MadeFrom(_, _)
MadeFrom(template, value) ==
    IF template.t = "obj"
    THEN /\ value.t = "obj"
         /\ Len(value.v) = Len(template.v)
         /\ \A i \in DOMAIN template.v :
               /\ value.v[i][1] = template.v[i][1]
               /\ MadeFrom(template.v[i][2], value.v[i][2])
    ELSE IF template.t = "arr" /\ Len(template.v) >= 2
    THEN /\ value.t = "arr"
         /\ Len(value.v) = Len(template.v)
         /\ \A i \in DOMAIN template.v : MadeFrom(template.v[i], value.v[i])
    ELSE IF template.t = "arr"
    THEN /\ value.t = "arr"
         /\ \A i \in DOMAIN value.v : MadeFrom(template.v[1], value.v[i])
    ELSE IF template.t = "str" /\ IsModelField(template.v)
    THEN /\ template.v[2] \in DOMAIN result
         /\ \E a \in DOMAIN result[template.v[2]] :
               LET rec == result[template.v[2]][a].v
               IN  template.v[4] \in Keys(rec) /\ Get(rec, template.v[4]) = value
    ELSE value.t = template.t

\* C10: item i of a sequence of n >= 2 elements is made from template element i
C10_PositionalItems ==
    (returned /\ mode = "inferred") =>
        \A n \in RequestNames :
            \A i \in DOMAIN result[n] : MadeFrom(TemplateOf(n), result[n][i])

(***************************************************************************)
(* C11: heuristic mode: with every count at least 1 and the ordering done, *)
(* the unresolved-reference error is unreachable; with a referenced model  *)
(* of count 0 and a referencing model of count >= 1 the request fails with *)
(* that error.                                                             *)
(***************************************************************************)
\* the strings $ref:M.f of a template, at any depth
ModelFieldRefs(template) == {x \in LeafStrings(template) : IsModelField(x)}

\* some model of count >= 1 has a reference $ref:M.f to a model of count 0
ReferencesEmptyModel ==
    \E b \in RequestNames :
        /\ CountOf(b) >= 1
        /\ \E x \in ModelFieldRefs(TemplateOf(b)) :
              x[2] \in RequestNames /\ CountOf(x[2]) = 0

OrderingDone ==
    pc \in {"generate", "returned"} \/ (pc = "failed" /\ error[1] \notin
        {"validation", "empty", "circular", "unknown"})

\* first half of C11: all counts >= 1, so no reference is left unresolved
C11_UnresolvedUnreachable ==
    (mode = "inferred" /\ \A n \in RequestNames : CountOf(n) >= 1) =>
        error[1] # "unresolved"

\* C11, both halves
C11_EmptyModelFails ==
    /\ C11_UnresolvedUnreachable
    /\ (mode = "inferred" /\ OrderingDone /\ ReferencesEmptyModel) =>
           /\ ~returned
           /\ (pc = "failed") => error[1] = "unresolved"

\* the request that returns although C references B, which has no record
C11_ReturnedWithEmptyModel ==
    /\ mode = "inferred" /\ returned
    /\ Len(models_config) = 3
    /\ TemplateOf("C") = HTwo("A", "B")
    /\ CountOf("A") = 1 /\ CountOf("B") = 0 /\ CountOf("C") = 1

(***************************************************************************)
(* C12: heuristic mode fails atomically: when resolving $ref:A.f raises    *)
(* because the sampled record of A has no field f, after A and possibly    *)
(* other models were stored, the call returns no mapping and the caller    *)
(* never sees the records generated before the failure.                    *)
(***************************************************************************)
C12_FailsAtomically ==
    mode = "inferred" =>
        /\ (pc = "failed") => (~returned /\ result = EmptyMap)
        /\ returned => (pc = "returned" /\ error = NoError)

C12_Witness ==
    /\ mode = "inferred"
    /\ pc = "failed"
    /\ error = <<"missing_field", "name", "A">>
    /\ "A" \in DOMAIN context /\ Len(context["A"]) = 2
    /\ ~returned
    /\ result = EmptyMap

(***************************************************************************)
(* C13: heuristic mode, string leaf that is no reference: the category of  *)
(* the generated value is that of the first keyword, in the listed order,  *)
(* that occurs as a case-insensitive substring of the field name; a name   *)
(* containing id or uuid and no earlier keyword gets the identifier        *)
(* category; a name matching no keyword gets a generic word.               *)
(***************************************************************************)
\* the list of the claim, in its order, with the category of each entry
ListedKeywords ==
    << <<"email", "email">>, <<"first_name", "first_name">>,
       <<"firstname", "first_name">>, <<"last_name", "last_name">>,
       <<"lastname", "last_name">>, <<"name", "name">>, <<"address", "address">>,
       <<"city", "city">>, <<"state", "state">>, <<"country", "country">>,
       <<"zip", "zipcode">>, <<"postal", "zipcode">>, <<"phone", "phone_number">>,
       <<"company", "company">>, <<"job", "job">>, <<"title", "job">>,
       <<"description", "text">>, <<"bio", "text">>, <<"date", "date">>,
       <<"time", "time">>, <<"url", "url">>, <<"website", "url">>,
       <<"id", "uuid4">>, <<"uuid", "uuid4">>, <<"color", "color_name">> >>

Occurring(key) ==
    {i \in DOMAIN ListedKeywords : Contains(Lower(Spell(key)), ListedKeywords[i][1])}

\* the category of the first listed keyword that occurs in the field name
FirstKeywordCategory(key) ==
    IF Occurring(key) = {} THEN "word"
    ELSE ListedKeywords[CHOOSE i \in Occurring(key) : \A j \in Occurring(key) : i <= j][2]

\* the field name that is exactly `id`, in any letter case
IsBareId(key) == Lower(Spell(key)) = <<"i", "d">>

\* the top-level string leaves of a template that are no references
PlainStringKeys(template) ==
    {template.v[i][1] : i \in {j \in DOMAIN template.v :
        /\ template.v[j][2].t = "str"
        /\ ~StartsWithRef(template.v[j][2].v)}}

\* every value stored or being collected for such a leaf has the category
HasCategories(category(_)) ==
    mode = "inferred" /\ pc \in {"generate", "returned"} =>
        \A n \in RequestNames :
            \A k \in PlainStringKeys(TemplateOf(n)) :
                /\ n \in DOMAIN context =>
                      \A i \in DOMAIN context[n] :
                          Get(context[n][i].v, k) \in Fake(category(k))
                /\ (pc = "generate" /\ loop <= Len(execution_order)
                        /\ execution_order[loop] = n) =>
                      \A i \in DOMAIN generated_items :
                          Get(generated_items[i].v, k) \in Fake(category(k))

\* C13 as stated: the first listed keyword decides, `id` included
C13_FirstKeywordDecides == HasCategories(FirstKeywordCategory)

AmendedCategory(key) == IF IsBareId(key) THEN "word" ELSE FirstKeywordCategory(key)

\* C13 amended: the field name that is exactly `id` gets a generic word
C13_FirstKeywordExceptBareId == HasCategories(AmendedCategory)

C13_Witness ==
    /\ mode = "inferred" /\ returned
    /\ Len(models_config) = 1
    /\ TemplateOf("A") = HKey("ID")
    /\ Len(result["A"]) = 2
    /\ \A i \in 1..2 : Get(result["A"][i].v, "ID") \in Fake("word")
====
